---- MODULE Spec2Model ----
(***************************************************************************)
(* Givebutter -> CiviCRM webhook forwarder.                                *)
(*                                                                         *)
(* The repository holds four variants of the same Express service:         *)
(*   "baseline"    src/index.js                                            *)
(*   "localArea"   src/unnamed/part_000, lines    1 ..  278                *)
(*   "membership"  src/unnamed/part_000, lines  280 ..  777                *)
(*   "stored"      src/unnamed/part_000, lines  779 .. 1143                *)
(* One of them is deployed (variable variant).  A request runs from one    *)
(* await to the next in one step: each action below is the code between    *)
(* two awaits, as Node's event loop runs it.  The CRM's contact table is   *)
(* the only state that outlives a request; what the CRM answers about      *)
(* contributions and memberships, and what the payment platform answers    *)
(* about plans, is the environment's choice.                               *)
(***************************************************************************)
EXTENDS Integers, Sequences, FiniteSets, TLC

VARIABLES
    variant,    \* which variant of the service is deployed
    secret,     \* GIVEBUTTER_WEBHOOK_SECRET (Undefined when not configured)
    apiKey,     \* GIVEBUTTER_API_KEY        (Undefined when not configured)
    contacts,   \* the CRM's contact table: contact i has id ToString(i)
    req         \* the requests: position in the handler, locals, calls made

vars == <<variant, secret, apiKey, contacts, req>>

-----------------------------------------------------------------------------
(* JavaScript values.                                                      *)

Undefined == "undefined"
Null == "null"

\* ToBoolean for the values of the model: ids, labels, keys.
Truthy(v) == v \notin {Undefined, Null, ""}

\* a || b
Or(a, b) == IF Truthy(a) THEN a ELSE b

\* An optional object is a sequence of length 0 or 1.
None == <<>>
Some(v) == <<v>>

-----------------------------------------------------------------------------
(* Bounds and the inputs the environment draws from.                       *)

\* The CRM refuses to create a contact once it holds this many.
MaxContacts == 2

Variants == {"baseline", "localArea", "membership", "stored"}

\* Variants whose findOrCreateContact returns {id, localArea}.
StoredAreaVariants == {"membership", "stored"}

Reqs == DOMAIN req

EmailA == "a@example.org"
EmailB == "b@example.org"

\* The id the CRM assigns to a contribution it creates.
ContributionIds == {"501"}

\* The id the CRM assigns to a membership it creates.
MembershipIds == {"901"}

\* The webhook secret of the deployment and a key that is not it.
SecretA == "whsec_A"
SecretB == "whsec_B"

\* A JavaScript value of the payload's campaign_id: a string or a number.
Str(s) == [type |-> "string", repr |-> s]
Num(s) == [type |-> "number", repr |-> s]
CampaignIds == {Str("195519"), Num("195519"), Str("test-campaign")}

\* One entry of transaction.custom_fields.
Field(title, fieldId, value) == [title |-> title, field_id |-> fieldId, value |-> value]
LocalAreaFieldId == 64260

CustomFieldLists ==
    { <<>>,
      <<Field("Local Area", LocalAreaFieldId, "Colorado")>>,
      <<Field("Local Area", LocalAreaFieldId, "Atlantis")>>,
      <<Field("T-shirt", 7, "Colorado"), Field("Area", LocalAreaFieldId, "Chicago")>>,
      <<Field("Local Area", LocalAreaFieldId, ""), Field("Local Area", LocalAreaFieldId, "Colorado")>> }

\* What a plan's detail answer carries as its frequency.
Frequencies == {"monthly", "quarterly", Undefined}

\* The same, with every frequency createOrRenewMembership tells apart and one
\* it does not know.
AllFrequencies == Frequencies \cup {"yearly", "annual", "weekly"}

PlanIds == {Undefined, "plan_1"}

\* A transaction: the fields of the payload's data object the code reads.
\* member_email is data.member.email (Undefined when data has no member).
Txn(email, memberEmail, campaign, fields, recurring, plan) ==
    [email |-> email, member_email |-> memberEmail, campaign_id |-> campaign,
     custom_fields |-> fields, is_recurring |-> recurring, plan_id |-> plan]

\* The payloads a webhook may carry, per variant.  A field the variant never
\* reads keeps one value: campaign_id and custom_fields in "baseline",
\* campaign_id in "localArea", is_recurring and plan_id everywhere but on the
\* membership path of "membership" (campaign_id === '195519').
Payloads(v) ==
    LET campaigns == IF v \in StoredAreaVariants THEN CampaignIds ELSE {Str("test-campaign")}
        fieldLists == IF v = "baseline" THEN {<<>>} ELSE CustomFieldLists
    IN  { t \in [email : {EmailA}, member_email : {Undefined}, campaign_id : campaigns,
                  custom_fields : fieldLists, is_recurring : BOOLEAN, plan_id : PlanIds] :
              (v = "membership" /\ t.campaign_id = Str("195519"))
                 \/ (t.is_recurring = FALSE /\ t.plan_id = Undefined) }
        \cup { Txn(Undefined, EmailA, Str("test-campaign"), <<>>, FALSE, Undefined) }

\* The CRM's contact tables a request may find.
Row(email, area) == [email |-> email, custom_820 |-> area]
InitialContacts(testEmail) ==
    { <<>>,
      <<Row(EmailA, "")>>,
      <<Row(EmailA, "Colorado")>>,
      <<Row(EmailA, "Chicago")>>,
      <<Row(EmailB, "Colorado"), Row(EmailA, "")>>,
      <<Row(EmailA, "Colorado"), Row(EmailA, "Chicago")>>,
      <<Row(testEmail, "")>> }

-----------------------------------------------------------------------------
(* The request.                                                            *)

NoContact == [id |-> Undefined, localArea |-> Null]

\* The values property of a CRM answer: absent, a list of records or a
\* mapping keyed by id.  ids holds the elements' id fields (list) or the keys
\* in order (mapping).
NoValues == [kind |-> "undefined", ids |-> <<>>]
NoResult == [id |-> Undefined, values |-> NoValues]

NoResponse ==
    [status |-> 0, json |-> FALSE, success |-> FALSE,
     contact_id |-> Undefined, contribution_id |-> Undefined, error |-> Undefined]

IdleRequest ==
    [pc |-> "idle", route |-> "none", signature |-> None, event |-> "none",
     data |-> None, searchResult |-> None, createResult |-> None,
     contactInfo |-> NoContact, result |-> NoResult,
     contributionId |-> Undefined, planDetails |-> None, frequency |-> Null,
     today |-> None, existingMembership |-> None, membershipId |-> Undefined,
     response |-> NoResponse, calls |-> <<>>]

\* res.sendStatus(n): a status with a plain-text body.
SendStatus(q, n) ==
    [q EXCEPT !.pc = "done", !.response = [NoResponse EXCEPT !.status = n]]

\* res.status(n).json(body): a key whose value is undefined is left out.
SendJson(q, n, success, contactId, contributionId, error) ==
    [q EXCEPT !.pc = "done",
              !.response = [status |-> n, json |-> TRUE, success |-> success,
                            contact_id |-> contactId, contribution_id |-> contributionId,
                            error |-> error]]

\* A catch block that answers 500 on either endpoint.
CaughtWithServerError(q, message) ==
    SendJson(q, 500, FALSE, Undefined, Undefined, message)

\* The catch block of the handler the request runs in.
Caught(q, message) ==
    IF q.route = "webhook"
    THEN SendJson(q, 200, FALSE, Undefined, Undefined, message)
    ELSE SendJson(q, 500, FALSE, Undefined, Undefined, message)

\* civiCRMApi(entity, action, params) / axios.get: the call is sent and the
\* caller awaits its answer at pc.
Call(q, fn, entity, action, params, pc) ==
    [q EXCEPT !.pc = pc,
              !.calls = Append(@, [fn |-> fn, entity |-> entity, action |-> action,
                                   params |-> params, outcome |-> "pending"])]

\* The call the request awaits.
Pending(q) == q.calls[Len(q.calls)]

\* The awaited call ends: "returned" (a 2xx answer of a call the service
\* carried out), "rejected" (a 2xx answer with an is_error body: nothing was
\* done, and axios does not throw) or "threw" (transport or non-2xx failure).
Settle(q, outcome) == [q EXCEPT !.calls[Len(q.calls)].outcome = outcome]

-----------------------------------------------------------------------------
(* Signature verifier.                                                     *)

Body(event, data) == [event |-> event, data |-> data]

\* crypto.createHmac('sha256', key).update(JSON.stringify(body)).digest('hex'):
\* equal digests come from equal keys and bodies only.
HmacSha256Hex(key, body) == [key |-> key, body |-> body]

\* verifyGivebutterSignature comparing the digests but going on either way.
verifyWithoutRejecting(signature, body, key) ==
    IF signature = None \/ key # Undefined THEN "next" ELSE "throw"

\* "next": the handler runs; "401": rejected; "throw": createHmac throws on
\* a key that is undefined, and Express answers 500.
verifyGivebutterSignature(signature, body, key) ==
    IF signature = None
    THEN "next"
    ELSE IF key = Undefined
         THEN "throw"
         ELSE IF signature[1] = HmacSha256Hex(key, body) THEN "next" ELSE "401"

\* What a sender may put in the givebutter-signature header.
TamperedBody == Body("tampered", None)
SignatureHeaders(body) ==
    { None, Some(HmacSha256Hex(SecretA, body)), Some(HmacSha256Hex(SecretB, body)),
      Some(HmacSha256Hex(SecretA, TamperedBody)) }

-----------------------------------------------------------------------------
(* The CRM, as the calls see it.                                           *)

\* Contact.get {email, sequential: 1}: the contacts with that email, by id.
ContactGet(table, email) ==
    LET rows == [i \in 1..Len(table) |->
                    [id |-> ToString(i), contact_id |-> ToString(i),
                     email |-> table[i].email, custom_820 |-> table[i].custom_820]]
        values == SelectSeq(rows, LAMBDA c : c.email = email)
    IN  [count |-> Len(values), values |-> values]

\* A CRM that keeps one contact per email: a create for a known email adds
\* nothing.
ContactCreateUnique(table, email) ==
    IF \E i \in 1..Len(table) : table[i].email = email
    THEN table
    ELSE Append(table, Row(email, ""))

\* Contact.create without id: a new contact, with the next id.
ContactCreate(table, email) == Append(table, Row(email, ""))

\* Contact.create {id, custom_820}: the contact's stored local area is set.
ContactUpdate(table, id, area) ==
    [i \in 1..Len(table) |->
        IF ToString(i) = id THEN [table[i] EXCEPT !.custom_820 = area] ELSE table[i]]

KnownContact(table, id) == \E i \in 1..Len(table) : ToString(i) = id

\* The shapes in which the answer to a create carries the new record's id:
\* {id}, {values: [{id}]}, {values: {<id>: {...}}}, or not at all (an
\* is_error body, which the CRM sends with status 200).
Shapes == {"direct", "list", "mapping", "none"}

CrmAnswer(shape, id) ==
    CASE shape = "direct"  -> [id |-> id, values |-> NoValues]
      [] shape = "list"    -> [id |-> Undefined, values |-> [kind |-> "list", ids |-> <<id>>]]
      [] shape = "mapping" -> [id |-> Undefined, values |-> [kind |-> "mapping", ids |-> <<id>>]]
      [] OTHER             -> NoResult

-----------------------------------------------------------------------------
(* Contact resolver.                                                       *)

\* values && values[0] && values[0].id
FirstValueId(values) ==
    IF values.kind = "list" /\ Len(values.ids) > 0 THEN values.ids[1] ELSE Undefined

\* values && Object.keys(values)[0]: a list's keys are its indices.
FirstKey(values) ==
    IF Len(values.ids) = 0
    THEN Undefined
    ELSE IF values.kind = "mapping" THEN values.ids[1] ELSE "0"

\* result.id || (values && values[0] && values[0].id) || (values && Object.keys(values)[0])
ExtractId(result) ==
    Or(result.id, Or(FirstValueId(result.values), FirstKey(result.values)))

\* The id findOrCreateContact takes from the answer to Contact.create.
CreatedContactId(v, createResult) ==
    IF v = "baseline" THEN createResult.id ELSE ExtractId(createResult)

\* FoundContact with the count compared off by one: a single match is then
\* taken for none.
FoundContactOffByOne(v, searchResult) ==
    searchResult.count > 1 /\ Len(searchResult.values) > 0

\* The condition under which findOrCreateContact returns the first match.
FoundContact(v, searchResult) ==
    IF v = "baseline"
    THEN searchResult.count > 0
    ELSE searchResult.count > 0 /\ Len(searchResult.values) > 0

\* What findOrCreateContact returns for the first match.
ExistingContact(v, contact) ==
    [id |-> IF v = "baseline" THEN contact.id ELSE Or(contact.id, contact.contact_id),
     localArea |-> IF v \in StoredAreaVariants THEN Or(contact.custom_820, Null) ELSE Null]

\* data.email || data.member?.email
DonorEmail(data) == Or(data.email, data.member_email)

\* findOrCreateContact up to its first await.
findOrCreateContact(q, email) ==
    Call(q, "findOrCreateContact", "Contact", "get", [email |-> email], "Contact.get")

-----------------------------------------------------------------------------
(* Contribution builder.                                                   *)

LocalAreaMapping ==
    "MKP USA" :> 49 @@ "Central Plains" :> 18 @@ "Chicago" :> 19 @@ "Colorado" :> 20
    @@ "Florida" :> 21 @@ "Greater Carolinas" :> 23 @@ "Hawaii" :> 25 @@ "Heartland" :> 139
    @@ "Intermountain" :> 28 @@ "Metro NY Tri-State" :> 36 @@ "Mid Atlantic" :> 24
    @@ "Mid America" :> 27 @@ "New England" :> 34 @@ "Northern California" :> 40
    @@ "Northwest" :> 41 @@ "Philadelphia" :> 42 @@ "Southern California" :> 31
    @@ "South Central" :> 51 @@ "South East" :> 22 @@ "Southwest" :> 17
    @@ "St. Louis" :> 45 @@ "Upstate New York" :> 46 @@ "Wisconsin" :> 48

DefaultFinancialType == 49
BaselineFinancialType == 1

\* localAreaMapping[label] || 49
FinancialTypeFor(label) ==
    IF label \in DOMAIN LocalAreaMapping THEN LocalAreaMapping[label] ELSE DefaultFinancialType

\* custom_fields.find(field => field.title === 'Local Area' || field.field_id === 64260)
LocalAreaField(fields) ==
    LET hits == {i \in 1..Len(fields) :
                    fields[i].title = "Local Area" \/ fields[i].field_id = LocalAreaFieldId}
    IN  IF hits = {} THEN None ELSE Some(fields[CHOOSE i \in hits : \A j \in hits : i <= j])

\* The value of the transaction's Local Area field, Null when the list has
\* no such field or the first such field has an empty value.
TransactionLocalArea(txn) ==
    LET f == LocalAreaField(txn.custom_fields)
    IN  IF f # None /\ Truthy(f[1].value) THEN f[1].value ELSE Null

\* campaignFinancialTypeMapping[transaction.campaign_id]: a number is looked
\* up under its decimal string.
CampaignFinancialTypeMapping(campaign) ==
    IF campaign.repr = "195519" THEN "use_custom_field" ELSE Undefined

\* transaction.campaign_id === s
StrictEquals(campaign, s) == campaign.type = "string" /\ campaign.repr = s

UsesCustomField(v, txn) ==
    v \in StoredAreaVariants /\ CampaignFinancialTypeMapping(txn.campaign_id) = "use_custom_field"

\* LocalAreaValue that never falls back on the contact's stored value.
LocalAreaValueIgnoringStored(v, contactInfo, txn) ==
    IF UsesCustomField(v, txn) THEN TransactionLocalArea(txn) ELSE Null

\* LocalAreaValue with the precedence turned round: the contact's stored
\* value first.
LocalAreaValueStoredFirst(v, contactInfo, txn) ==
    IF ~UsesCustomField(v, txn)
    THEN Null
    ELSE IF Truthy(contactInfo.localArea)
         THEN contactInfo.localArea
         ELSE TransactionLocalArea(txn)

\* localAreaValue after lines 586-605: the transaction's value, else the
\* contact's stored one.
LocalAreaValue(v, contactInfo, txn) ==
    IF ~UsesCustomField(v, txn)
    THEN Null
    ELSE IF Truthy(TransactionLocalArea(txn))
         THEN TransactionLocalArea(txn)
         ELSE IF Truthy(contactInfo.localArea) THEN contactInfo.localArea ELSE Null

\* ShouldUpdateContact without the case of a contact that has no stored value.
ShouldUpdateOnlyStored(v, contactInfo, txn) ==
    /\ UsesCustomField(v, txn)
    /\ Truthy(TransactionLocalArea(txn))
    /\ Truthy(contactInfo.localArea)
    /\ contactInfo.localArea # TransactionLocalArea(txn)

ShouldUpdateContact(v, contactInfo, txn) ==
    /\ UsesCustomField(v, txn)
    /\ Truthy(TransactionLocalArea(txn))
    /\ (~Truthy(contactInfo.localArea) \/ contactInfo.localArea # TransactionLocalArea(txn))

\* financialTypeId as submitted.
FinancialTypeId(v, contactInfo, txn) ==
    CASE v = "baseline" -> BaselineFinancialType
      [] v = "localArea" ->
            IF Truthy(TransactionLocalArea(txn))
            THEN FinancialTypeFor(TransactionLocalArea(txn))
            ELSE DefaultFinancialType
      [] OTHER ->
            IF UsesCustomField(v, txn)
            THEN IF Truthy(LocalAreaValue(v, contactInfo, txn))
                 THEN FinancialTypeFor(LocalAreaValue(v, contactInfo, txn))
                 ELSE DefaultFinancialType
            ELSE IF Truthy(CampaignFinancialTypeMapping(txn.campaign_id))
                 THEN CampaignFinancialTypeMapping(txn.campaign_id)
                 ELSE DefaultFinancialType

\* civiCRMApi('Contribution', 'create', contributionData)
SubmitContribution(v, q) ==
    Call(q, "createContribution", "Contribution", "create",
         [contact_id |-> q.contactInfo.id,
          financial_type_id |-> FinancialTypeId(v, q.contactInfo, q.data[1])],
         "Contribution.create")

\* createContribution that never writes the local area back to the contact.
createContributionWithoutUpdate(v, q, contactInfo) ==
    SubmitContribution(v, [q EXCEPT !.contactInfo = contactInfo])

\* createContribution up to its first await: the stored-attribute update
\* when one is due, the contribution otherwise.
createContribution(v, q, contactInfo) ==
    LET q1 == [q EXCEPT !.contactInfo = contactInfo]
        txn == q.data[1]
    IN  IF ShouldUpdateContact(v, contactInfo, txn) /\ Truthy(LocalAreaValue(v, contactInfo, txn))
        THEN Call(q1, "updateContactLocalArea", "Contact", "create",
                  [id |-> contactInfo.id, custom_820 |-> LocalAreaValue(v, contactInfo, txn)],
                  "Contact.update")
        ELSE SubmitContribution(v, q1)

\* The handler's answer once createContribution has returned.
Succeed(v, q) ==
    IF q.route = "test" /\ v = "membership"
    THEN SendJson(q, 200, TRUE, q.contactInfo.id, Undefined, Undefined)
    ELSE SendJson(q, 200, TRUE, q.contactInfo.id, q.result.id, Undefined)

-----------------------------------------------------------------------------
(* Membership manager ("membership" only).                                 *)

AnnualNonRenewing == 11
MonthlyRenewing == 10
AnnualRenewing == 9

\* MembershipPlan that gives a quarterly plan the monthly plan's duration.
MembershipPlanQuarterlyAsMonthly(isRecurring, frequency) ==
    IF ~isRecurring
    THEN [type |-> AnnualNonRenewing, years |-> 1, months |-> 0]
    ELSE IF frequency \in {"monthly", "quarterly"}
    THEN [type |-> MonthlyRenewing, years |-> 0, months |-> 1]
    ELSE IF frequency \in {"yearly", "annual"}
    THEN [type |-> AnnualRenewing, years |-> 1, months |-> 0]
    ELSE [type |-> AnnualNonRenewing, years |-> 1, months |-> 0]

\* The membership type and duration createOrRenewMembership settles on.
MembershipPlan(isRecurring, frequency) ==
    IF ~isRecurring
    THEN [type |-> AnnualNonRenewing, years |-> 1, months |-> 0]
    ELSE IF frequency = "monthly"
    THEN [type |-> MonthlyRenewing, years |-> 0, months |-> 1]
    ELSE IF frequency = "yearly" \/ frequency = "annual"
    THEN [type |-> AnnualRenewing, years |-> 1, months |-> 0]
    ELSE IF frequency = "quarterly"
    THEN [type |-> MonthlyRenewing, years |-> 0, months |-> 3]
    ELSE [type |-> AnnualNonRenewing, years |-> 1, months |-> 0]

\* A calendar date, as toISOString().split('T')[0] writes it and new Date(..)
\* reads it; the server's clock and time zone are UTC.
Date(y, m, d) == [y |-> y, m |-> m, d |-> d]

IsLeapYear(y) == (y % 4 = 0 /\ y % 100 # 0) \/ y % 400 = 0

DaysInMonth(y, m) ==
    IF m = 2
    THEN IF IsLeapYear(y) THEN 29 ELSE 28
    ELSE IF m \in {4, 6, 9, 11} THEN 30 ELSE 31

\* The date a Date object holds once a field was set: a month past December
\* carries into the year, a day past the month's end into the next month.
RECURSIVE MakeDate(_, _, _)
MakeDate(y, m, d) ==
    IF m > 12
    THEN MakeDate(y + 1, m - 12, d)
    ELSE IF d > DaysInMonth(y, m)
         THEN MakeDate(y, m + 1, d - DaysInMonth(y, m))
         ELSE Date(y, m, d)

setDate(date, d) == MakeDate(date.y, date.m, d)
setMonth(date, m) == MakeDate(date.y, m, date.d)
setFullYear(date, y) == MakeDate(y, date.m, date.d)

\* a > b for two dates read at midnight.
Later(a, b) ==
    \/ a.y > b.y
    \/ a.y = b.y /\ a.m > b.m
    \/ a.y = b.y /\ a.m = b.m /\ a.d > b.d

\* if (duration.years) endDate.setFullYear(from.getFullYear() + duration.years)
\* else if (duration.months) endDate.setMonth(from.getMonth() + duration.months)
Extend(endDate, from, duration) ==
    IF duration.years > 0
    THEN setFullYear(endDate, from.y + duration.years)
    ELSE IF duration.months > 0
         THEN setMonth(endDate, from.m + duration.months)
         ELSE endDate

\* existingEndDate > today: the end date is read at midnight, today is now.
NotExpired(existingEnd, today) == Later(existingEnd, today)

\* A renewal whose end date is left as computed from today.
RenewalWindowStaleEnd(today, duration, existingEnd) ==
    IF NotExpired(existingEnd, today)
    THEN [start |-> setDate(existingEnd, existingEnd.d + 1),
          end |-> Extend(today, today, duration)]
    ELSE [start |-> today, end |-> Extend(today, today, duration)]

\* startDate and endDate when a membership of the type exists.
RenewalWindow(today, duration, existingEnd) ==
    IF NotExpired(existingEnd, today)
    THEN LET startDate == setDate(existingEnd, existingEnd.d + 1)
         IN  [start |-> startDate, end |-> Extend(startDate, startDate, duration)]
    ELSE [start |-> today, end |-> Extend(today, today, duration)]

\* membershipData with the id of the membership Membership.get returned.
RenewalData(today, duration, existing) ==
    LET window == RenewalWindow(today, duration, existing.end_date)
    IN  [id |-> existing.id, join_date |-> Undefined,
         start_date |-> window.start, end_date |-> window.end]

\* membershipData when Membership.get returned none.
FreshData(today, duration) ==
    [id |-> Undefined, join_date |-> today,
     start_date |-> today, end_date |-> Extend(today, today, duration)]

\* The dates and the id createOrRenewMembership writes.
MembershipData(today, duration, existing) ==
    IF existing # None
    THEN RenewalData(today, duration, existing[1])
    ELSE FreshData(today, duration)

\* The clock's date when createOrRenewMembership reads it.
Todays == {Date(2025, 3, 15)}

\* The same, with a month's last day, a leap day and a year's last day.
AllTodays == Todays \cup {Date(2025, 1, 31), Date(2024, 2, 29), Date(2025, 12, 31)}

\* The end dates the contact's latest membership of the type may have: the
\* day before Todays' date, and sixty days after it.
EndDates == {Date(2025, 3, 14), Date(2025, 5, 14)}

\* The same, with dates long past, equal to a date of AllTodays, one day after
\* it, and one day before a month's last day.
AllEndDates ==
    EndDates \cup {Date(2023, 6, 1), Date(2024, 2, 28), Date(2025, 1, 30),
                   Date(2025, 3, 15), Date(2025, 3, 16), Date(2025, 12, 31)}

\* What Membership.get returns: nothing, or the latest membership of the type.
ExistingMemberships(endDates) ==
    {None} \cup {Some([id |-> "900", end_date |-> d]) : d \in endDates}

\* createOrRenewMembership up to its first await.
createOrRenewMembership(q) ==
    Call(q, "createOrRenewMembership", "Membership", "get",
         [contact_id |-> q.contactInfo.id,
          membership_type_id |-> MembershipPlan(q.data[1].is_recurring, q.frequency).type],
         "Membership.get")

\* createContribution once the CRM has answered Contribution.create.
afterContribution(v, key, q, result) ==
    LET q1 == [q EXCEPT !.result = result,
                        !.contributionId = IF v = "baseline" THEN result.id ELSE ExtractId(result)]
        txn == q.data[1]
    IN  IF v = "membership" /\ StrictEquals(txn.campaign_id, "195519")
        THEN IF Truthy(txn.plan_id) /\ Truthy(key)
             THEN Call(q1, "getGivebutterPlan", "Plan", "get", [plan_id |-> txn.plan_id], "Plan.get")
             ELSE createOrRenewMembership(q1)
        ELSE Succeed(v, q1)

-----------------------------------------------------------------------------
(* Webhook dispatcher and the test endpoint.                               *)

Events == {"transaction.succeeded", "campaign.created"}

\* The data object of an event that is not a transaction's.
OtherEventData == Txn(EmailA, Undefined, Str("195519"), <<>>, FALSE, Undefined)

\* A handler that runs the chain whatever the event's type.
webhookHandlerAnyEvent(q) ==
    IF q.data = None
    THEN Caught(q, "TypeError")
    ELSE findOrCreateContact(q, DonorEmail(q.data[1]))

\* The handler of POST /webhook/givebutter up to its first await.
webhookHandler(q) ==
    IF q.event = "transaction.succeeded"
    THEN IF q.data = None
         THEN Caught(q, "TypeError")
         ELSE findOrCreateContact(q, DonorEmail(q.data[1]))
    ELSE SendStatus(q, 200)

\* testData of POST /test.
TestEmail(v) == IF v = "baseline" THEN "test@example.com" ELSE "testdonor@example.com"

TestData(v) ==
    CASE v = "baseline" ->
            Txn(TestEmail(v), Undefined, Str("test-campaign"), <<>>, FALSE, Undefined)
      [] v = "localArea" ->
            Txn(TestEmail(v), Undefined, Str("test-campaign"),
                <<Field("Local Area", LocalAreaFieldId, "Colorado")>>, FALSE, Undefined)
      [] v = "membership" ->
            Txn(TestEmail(v), Undefined, Str("195519"),
                <<Field("Local Area", LocalAreaFieldId, "Colorado")>>, TRUE, Null)
      [] OTHER ->
            Txn(TestEmail(v), Undefined, Str("195519"),
                <<Field("Local Area", LocalAreaFieldId, "Colorado")>>, FALSE, Undefined)

-----------------------------------------------------------------------------
(* The actions: a request arrives, or a call it awaits is answered.        *)

Init ==
    /\ variant \in Variants
    /\ secret \in {Undefined, SecretA}
    /\ apiKey \in IF variant = "membership" THEN {Undefined, "gb_key"} ELSE {Undefined}
    /\ contacts \in InitialContacts(TestEmail(variant))
    /\ req = [r \in {"r1"} |-> IdleRequest]

\* A POST to /webhook/givebutter whose transaction is one of payloads.
Arrives(r, payloads) ==
    /\ req[r].pc = "idle"
    /\ \E event \in Events :
       \E data \in IF event = "transaction.succeeded"
                   THEN {None} \cup {Some(t) : t \in payloads}
                   ELSE {None, Some(OtherEventData)} :
       \E signature \in SignatureHeaders(Body(event, data)) :
          LET q == [req[r] EXCEPT !.route = "webhook", !.signature = signature,
                                  !.event = event, !.data = data]
              verdict == verifyGivebutterSignature(signature, Body(event, data), secret)
          IN  req' = [req EXCEPT ![r] =
                        CASE verdict = "next" -> webhookHandler(q)
                          [] verdict = "401"  -> SendStatus(q, 401)
                          [] OTHER            -> SendStatus(q, 500)]
    /\ UNCHANGED <<variant, secret, apiKey, contacts>>

PostWebhook(r) == Arrives(r, Payloads(variant))

PostTest(r) ==
    /\ req[r].pc = "idle"
    /\ req' = [req EXCEPT ![r] =
                 findOrCreateContact([@ EXCEPT !.route = "test", !.data = Some(TestData(variant))],
                                     TestData(variant).email)]
    /\ UNCHANGED <<variant, secret, apiKey, contacts>>

\* findOrCreateContact once the CRM has answered Contact.get.
afterContactGet(v, q, searchResult) ==
    LET q1 == [q EXCEPT !.searchResult = Some(searchResult)]
    IN  IF FoundContact(v, searchResult)
        THEN IF Len(searchResult.values) = 0
             THEN Caught(q1, "TypeError")
             ELSE createContribution(v, q1, ExistingContact(v, searchResult.values[1]))
        ELSE Call(q1, "findOrCreateContact", "Contact", "create",
                  [email |-> Pending(q).params.email], "Contact.create")

ContactGetReturns(r) ==
    /\ req[r].pc = "Contact.get"
    /\ \/ req' = [req EXCEPT ![r] = Caught(Settle(@, "threw"), "Contact.get failed")]
       \/ req' = [req EXCEPT ![r] =
                    afterContactGet(variant, Settle(@, "returned"),
                                    ContactGet(contacts, Pending(@).params.email))]
    /\ UNCHANGED <<variant, secret, apiKey, contacts>>

\* findOrCreateContact once the CRM has answered Contact.create.
afterContactCreate(v, q, createResult) ==
    createContribution(v, [q EXCEPT !.createResult = Some(createResult)],
                       [id |-> CreatedContactId(v, createResult), localArea |-> Null])

ContactCreateReturns(r) ==
    /\ req[r].pc = "Contact.create"
    /\ \/ /\ req' = [req EXCEPT ![r] = Caught(Settle(@, "threw"), "Contact.create failed")]
          /\ UNCHANGED contacts
       \/ /\ Len(contacts) < MaxContacts
          /\ contacts' = ContactCreate(contacts, Pending(req[r]).params.email)
          /\ \E shape \in Shapes \ {"none"} :
                req' = [req EXCEPT ![r] =
                          afterContactCreate(variant, Settle(@, "returned"),
                                             CrmAnswer(shape, ToString(Len(contacts) + 1)))]
       \/ /\ req' = [req EXCEPT ![r] =
                       afterContactCreate(variant, Settle(@, "rejected"),
                                          CrmAnswer("none", Undefined))]
          /\ UNCHANGED contacts
    /\ UNCHANGED <<variant, secret, apiKey>>

\* updateContactLocalArea without its catch block: the failure reaches the
\* handler's.
updateFailurePropagates(v, q) == Caught(q, "Contact update failed")

\* The catch block of updateContactLocalArea: the failure is logged, and
\* createContribution goes on to the contribution.
updateFailed(v, q) == SubmitContribution(v, q)

ContactUpdateReturns(r) ==
    /\ req[r].pc = "Contact.update"
    /\ \/ /\ req' = [req EXCEPT ![r] = updateFailed(variant, Settle(@, "threw"))]
          /\ UNCHANGED contacts
       \/ /\ req' = [req EXCEPT ![r] = SubmitContribution(variant, Settle(@, "rejected"))]
          /\ UNCHANGED contacts
       \/ /\ KnownContact(contacts, Pending(req[r]).params.id)
          /\ contacts' = ContactUpdate(contacts, Pending(req[r]).params.id,
                                       Pending(req[r]).params.custom_820)
          /\ req' = [req EXCEPT ![r] = SubmitContribution(variant, Settle(@, "returned"))]
    /\ UNCHANGED <<variant, secret, apiKey>>

\* createContribution going on to the membership although Contribution.create
\* failed.
contributionFailureIgnored(q) == createOrRenewMembership(q)

\* Contribution.create threw: civiCRMApi rethrows, createContribution does not
\* catch, and the handler's catch block answers.
contributionFailed(q) == Caught(q, "Contribution.create failed")

ContributionCreateReturns(r) ==
    /\ req[r].pc = "Contribution.create"
    /\ \/ req' = [req EXCEPT ![r] = contributionFailed(Settle(@, "threw"))]
       \/ /\ Truthy(Pending(req[r]).params.contact_id)
          /\ \E shape \in Shapes \ {"none"}, id \in ContributionIds :
                req' = [req EXCEPT ![r] =
                          afterContribution(variant, apiKey, Settle(@, "returned"),
                                            CrmAnswer(shape, id))]
       \/ req' = [req EXCEPT ![r] =
                    afterContribution(variant, apiKey, Settle(@, "rejected"),
                                      CrmAnswer("none", Undefined))]
    /\ UNCHANGED <<variant, secret, apiKey, contacts>>

\* createContribution once getGivebutterPlan has returned planDetails (None
\* for null): only a frequency the answer carries is kept.
afterPlan(q, planDetails) ==
    createOrRenewMembership(
        [q EXCEPT !.planDetails = planDetails,
                  !.frequency = IF planDetails # None /\ Truthy(planDetails[1].frequency)
                                THEN planDetails[1].frequency
                                ELSE Null])

\* getGivebutterPlan without its catch block: the failure reaches the
\* handler's.
planFailurePropagates(q) == Caught(q, "Plan lookup failed")

\* The catch block of getGivebutterPlan: null is returned.
planFailed(q) == afterPlan(q, None)

\* The payment platform answers the plan lookup, with one of frequencies.
PlanAnswered(r, frequencies) ==
    /\ req[r].pc = "Plan.get"
    /\ \/ req' = [req EXCEPT ![r] = planFailed(Settle(@, "threw"))]
       \/ \E f \in frequencies :
             req' = [req EXCEPT ![r] = afterPlan(Settle(@, "returned"), Some([frequency |-> f]))]
    /\ UNCHANGED <<variant, secret, apiKey, contacts>>

PlanGetReturns(r) == PlanAnswered(r, Frequencies)

\* createOrRenewMembership without its catch block: the failure reaches the
\* handler's.
membershipFailurePropagates(v, q) == Caught(q, "Membership call failed")

\* The catch block of createOrRenewMembership: null is returned, and
\* createContribution returns the contribution.
membershipFailed(v, q) == Succeed(v, [q EXCEPT !.membershipId = Null])

\* createOrRenewMembership once the CRM has answered Membership.get:
\* existing is the latest membership of the type, if any.
afterMembershipGet(q, today, existing) ==
    LET plan == MembershipPlan(q.data[1].is_recurring, q.frequency)
        data == MembershipData(today, plan, existing)
    IN  Call([q EXCEPT !.today = Some(today), !.existingMembership = existing],
             "createOrRenewMembership", "Membership", "create",
             [contact_id |-> q.contactInfo.id,
              membership_type_id |-> plan.type,
              contribution_id |-> q.contributionId,
              id |-> data.id, join_date |-> data.join_date,
              start_date |-> data.start_date, end_date |-> data.end_date],
             "Membership.create")

\* The CRM answers Membership.get on one of the days todays, with the latest
\* membership ending on one of endDates or with none.
MembershipAnswered(r, todays, endDates) ==
    /\ req[r].pc = "Membership.get"
    /\ \/ req' = [req EXCEPT ![r] = membershipFailed(variant, Settle(@, "threw"))]
       \/ \E today \in todays, existing \in ExistingMemberships(endDates) :
             req' = [req EXCEPT ![r] = afterMembershipGet(Settle(@, "returned"), today, existing)]
       \/ \E today \in todays :
             req' = [req EXCEPT ![r] = afterMembershipGet(Settle(@, "rejected"), today, None)]
    /\ UNCHANGED <<variant, secret, apiKey, contacts>>

MembershipGetReturns(r) == MembershipAnswered(r, Todays, EndDates)

MembershipCreateReturns(r) ==
    /\ req[r].pc = "Membership.create"
    /\ \/ req' = [req EXCEPT ![r] = membershipFailed(variant, Settle(@, "threw"))]
       \/ \E shape \in Shapes \ {"none"}, id \in MembershipIds :
             req' = [req EXCEPT ![r] =
                       Succeed(variant, [Settle(@, "returned") EXCEPT
                                           !.membershipId = ExtractId(CrmAnswer(shape, id))])]
       \/ req' = [req EXCEPT ![r] =
                    Succeed(variant, [Settle(@, "rejected") EXCEPT
                                        !.membershipId = ExtractId(CrmAnswer("none", Undefined))])]
    /\ UNCHANGED <<variant, secret, apiKey, contacts>>

Next ==
    \E r \in Reqs :
       \/ PostWebhook(r)
       \/ PostTest(r)
       \/ ContactGetReturns(r)
       \/ ContactCreateReturns(r)
       \/ ContactUpdateReturns(r)
       \/ ContributionCreateReturns(r)
       \/ PlanGetReturns(r)
       \/ MembershipGetReturns(r)
       \/ MembershipCreateReturns(r)

Spec == Init /\ [][Next]_vars

-----------------------------------------------------------------------------
(* Renewals: the deployment with memberships, a donor the CRM knows, the   *)
(* campaign that carries memberships, and every date and frequency         *)
(* createOrRenewMembership tells apart.                                    *)

RenewalPayloads ==
    { Txn(EmailA, Undefined, Str("195519"), <<>>, recurring, plan) :
        recurring \in BOOLEAN, plan \in PlanIds }

RenewalInit ==
    /\ variant = "membership"
    /\ secret = Undefined
    /\ apiKey \in {Undefined, "gb_key"}
    /\ contacts = <<Row(EmailA, "Colorado")>>
    /\ req = [r \in {"r1"} |-> IdleRequest]

RenewalWebhook(r) == Arrives(r, RenewalPayloads)

RenewalPlanReturns(r) == PlanAnswered(r, AllFrequencies)

RenewalMembershipGetReturns(r) == MembershipAnswered(r, AllTodays, AllEndDates)

RenewalNext ==
    \E r \in Reqs :
       \/ RenewalWebhook(r)
       \/ ContactGetReturns(r)
       \/ ContributionCreateReturns(r)
       \/ RenewalPlanReturns(r)
       \/ RenewalMembershipGetReturns(r)
       \/ MembershipCreateReturns(r)

RenewalSpec == RenewalInit /\ [][RenewalNext]_vars

-----------------------------------------------------------------------------
(* Two requests in flight: Node runs one handler until its next await, and *)
(* then any other.  Both carry a transaction of the same donor, of a       *)
(* campaign without local-area policy or membership.                       *)

RacePayloads == { Txn(EmailA, Undefined, Str("test-campaign"), <<>>, FALSE, Undefined) }

RaceInit ==
    /\ variant \in Variants
    /\ secret = Undefined
    /\ apiKey = Undefined
    /\ contacts \in {<<>>, <<Row(EmailB, "")>>}
    /\ req = [r \in {"r1", "r2"} |-> IdleRequest]

RaceWebhook(r) == Arrives(r, RacePayloads)

RaceNext ==
    \E r \in Reqs :
       \/ RaceWebhook(r)
       \/ ContactGetReturns(r)
       \/ ContactCreateReturns(r)
       \/ ContributionCreateReturns(r)

RaceSpec == RaceInit /\ [][RaceNext]_vars

-----------------------------------------------------------------------------
(* Properties.                                                             *)

Handled(q) == q.pc = "done"

\* The Contact.create calls findOrCreateContact made.
ResolverCreates(q) ==
    {i \in 1..Len(q.calls) :
        /\ q.calls[i].fn = "findOrCreateContact"
        /\ q.calls[i].entity = "Contact" /\ q.calls[i].action = "create"}

\* The id an answer carries: its id field, else the first element's id or
\* the first key of its values.
CarriedId(answer) ==
    IF Truthy(answer.id)
    THEN answer.id
    ELSE IF Len(answer.values.ids) > 0 THEN answer.values.ids[1] ELSE Undefined

\* The request went through the signature verifier to the webhook handler.
Passed(q) ==
    /\ q.route = "webhook"
    /\ verifyGivebutterSignature(q.signature, Body(q.event, q.data), secret) = "next"

Threw(q, fns) ==
    \E i \in 1..Len(q.calls) : q.calls[i].fn \in fns /\ q.calls[i].outcome = "threw"

\* C1: when the lookup by email returns at least one contact, findOrCreateContact
\* issues no Contact.create and returns the id of the first contact returned.
C1_FoundNeverCreates ==
    \A r \in Reqs :
        LET q == req[r]
        IN  (q.searchResult # None /\ q.searchResult[1].count > 0)
               => /\ ResolverCreates(q) = {}
                  /\ q.contactInfo.id = q.searchResult[1].values[1].id

\* C1's case: two contacts match, the request is answered, the first was taken.
C1_Witness ==
    \E r \in Reqs :
        /\ Handled(req[r]) /\ req[r].response.success
        /\ req[r].searchResult # None /\ req[r].searchResult[1].count = 2
        /\ req[r].contactInfo.id = "1"

\* C2: when the lookup finds no contact, exactly one Contact.create is issued
\* by findOrCreateContact, and the id it returns is the id the create answer
\* carries, in whichever shape.
C2_CreatedIdReturned ==
    \A r \in Reqs :
        LET q == req[r]
        IN  /\ (q.searchResult # None /\ q.searchResult[1].count = 0)
                  => Cardinality(ResolverCreates(q)) = 1
            /\ (q.createResult # None /\ Truthy(CarriedId(q.createResult[1])))
                  => q.contactInfo.id = CarriedId(q.createResult[1])

\* C3: a signature header that is present and is not the HMAC of the body under
\* the configured secret is answered 401, and the request makes no call.
C3_MismatchRejected ==
    \A r \in Reqs :
        LET q == req[r]
        IN  (/\ q.route = "webhook"
             /\ q.signature # None
             /\ secret # Undefined
             /\ q.signature[1] # HmacSha256Hex(secret, Body(q.event, q.data)))
               => /\ Handled(q)
                  /\ q.response.status = 401
                  /\ q.calls = <<>>

\* C3's case: a transaction signed with the right key over another body.
C3_Witness ==
    \E r \in Reqs :
        /\ req[r].event = "transaction.succeeded" /\ req[r].data # None
        /\ req[r].signature = Some(HmacSha256Hex(secret, TamperedBody))
        /\ req[r].response.status = 401

\* A step of the chain failed: the payload has no data object, or a call of
\* the resolver or the contribution's create threw.
ChainFailed(q) ==
    q.data = None \/ Threw(q, {"findOrCreateContact", "createContribution"})

\* C4: a transaction.succeeded webhook that passed the verifier is never
\* answered with another status than 200, and when a step of the chain failed
\* the answer is 200 {success: false, error}.
C4_FailureAnsweredWith200 ==
    \A r \in Reqs :
        LET q == req[r]
        IN  (Passed(q) /\ q.event = "transaction.succeeded")
               => /\ Handled(q) => q.response.status = 200
                  /\ ChainFailed(q)
                        => /\ Handled(q)
                           /\ q.response.json /\ ~q.response.success
                           /\ Truthy(q.response.error)

\* C4's case: the contribution's create threw after the contact was created.
C4_Witness ==
    \E r \in Reqs :
        /\ Passed(req[r]) /\ req[r].createResult # None
        /\ Threw(req[r], {"createContribution"})
        /\ req[r].response.status = 200 /\ ~req[r].response.success

\* C5: a handled success of transaction.succeeded is answered 200 with
\* success = true, the resolved contact's id as contact_id and, as
\* contribution_id, the id the CRM's answer carries for the contribution, in
\* whichever of the three shapes.
C5_SuccessCarriesIds ==
    \A r \in Reqs :
        LET q == req[r]
        IN  (q.route = "webhook" /\ Handled(q) /\ q.response.json /\ q.response.success)
               => /\ q.response.status = 200
                  /\ q.response.contact_id = q.contactInfo.id
                  /\ Truthy(CarriedId(q.result))
                        => q.response.contribution_id = CarriedId(q.result)

\* C6: POST /test answers 500 with an error message when the resolver or the
\* contribution's create failed, and otherwise 200 with the contact's id and
\* the contribution's (stated here for an answer that carries the
\* contribution's id in its id field).
C6_TestAnswers ==
    \A r \in Reqs :
        LET q == req[r]
        IN  (q.route = "test" /\ Handled(q))
               => IF Threw(q, {"findOrCreateContact", "createContribution"})
                  THEN q.response.status = 500 /\ Truthy(q.response.error)
                  ELSE /\ q.response.status = 200
                       /\ q.response.contact_id = q.contactInfo.id
                       /\ Truthy(q.result.id) => q.response.contribution_id = q.result.id

\* The Contribution.create calls of a request.
ContributionCalls(q) ==
    {i \in 1..Len(q.calls) : q.calls[i].entity = "Contribution"}

\* The local area the lookup returned for the contact the resolver took.
StoredLocalArea(q) ==
    IF q.searchResult # None /\ q.searchResult[1].count > 0
    THEN q.searchResult[1].values[1].custom_820
    ELSE ""

\* The label of a transaction for a contact: the transaction's Local Area
\* value, else the contact's stored one.
Label(q) == Or(TransactionLocalArea(q.data[1]), StoredLocalArea(q))

\* C7 as stated: in the variants that read the Local Area field, the
\* contribution's financial_type_id is the table's id for the label (49 when the
\* label is absent or not in the table), whatever the campaign.
C7_LabelDeterminesType ==
    \A r \in Reqs :
        variant # "baseline" =>
            \A i \in ContributionCalls(req[r]) :
                req[r].calls[i].params.financial_type_id = FinancialTypeFor(Label(req[r]))

\* C7, amended: under the custom-field policy (campaign_id 195519, string or
\* number, in "stored" and "membership") the financial_type_id is the table's
\* id for the label, 49 when the label is absent or not in the table; for any
\* other campaign it is 49; "localArea" looks the transaction's own value up,
\* whatever the campaign, and never the contact's.
C7_LabelDeterminesTypeUnderPolicy ==
    \A r \in Reqs :
        \A i \in ContributionCalls(req[r]) :
            LET q == req[r]
                sent == q.calls[i].params.financial_type_id
            IN  CASE variant = "baseline" -> TRUE
                  [] variant = "localArea" ->
                        sent = FinancialTypeFor(TransactionLocalArea(q.data[1]))
                  [] OTHER ->
                        IF q.data[1].campaign_id.repr = "195519"
                        THEN sent = FinancialTypeFor(Label(q))
                        ELSE sent = DefaultFinancialType

\* C7's case: the transaction says Colorado, the contact Chicago, and 20 is sent.
C7_Witness ==
    \E r \in Reqs :
        /\ variant = "membership"
        /\ StoredLocalArea(req[r]) = "Chicago"
        /\ req[r].data # None /\ TransactionLocalArea(req[r].data[1]) = "Colorado"
        /\ \E i \in ContributionCalls(req[r]) : req[r].calls[i].params.financial_type_id = 20

\* C8: an event of another type than transaction.succeeded that reaches the
\* handler is answered 200 without a JSON body, and no call is made.
C8_OtherEventsAcknowledged ==
    \A r \in Reqs :
        LET q == req[r]
        IN  (Passed(q) /\ q.event # "transaction.succeeded")
               => /\ Handled(q)
                  /\ q.response.status = 200 /\ ~q.response.json
                  /\ q.calls = <<>>

\* C8's case: another event, carrying a data object, was acknowledged.
C8_Witness ==
    \E r \in Reqs :
        /\ req[r].event = "campaign.created" /\ req[r].data # None
        /\ req[r].response.status = 200

\* What a lookup by email returns as the stored local area (of the first match).
LookupLocalArea(table, email) ==
    LET found == ContactGet(table, email)
    IN  IF found.count > 0 THEN found.values[1].custom_820 ELSE Undefined

\* A transaction.succeeded webhook for an email the CRM did not know, under the
\* custom-field policy, with a Local Area value, answered 200 {success: true}.
NewDonorWithArea(q) ==
    /\ q.route = "webhook" /\ Handled(q) /\ q.response.status = 200 /\ q.response.success
    /\ q.searchResult # None /\ q.searchResult[1].count = 0
    /\ UsesCustomField(variant, q.data[1])
    /\ Truthy(TransactionLocalArea(q.data[1]))

\* Every Contact call of the request was carried out by the CRM.
ContactCallsCarriedOut(q) ==
    \A i \in 1..Len(q.calls) : q.calls[i].entity = "Contact" => q.calls[i].outcome = "returned"

C10_MembershipFailureIsolated ==
    \A r \in Reqs :
        LET q == req[r]
        IN  Threw(q, {"createOrRenewMembership"})
               => /\ Handled(q)
                  /\ q.membershipId = Null
                  /\ q.response.status = 200 /\ q.response.json /\ q.response.success
                  /\ q.response.contact_id = q.contactInfo.id

\* C10's case: Membership.create failed in a webhook answered with success.
C10_Witness ==
    \E r \in Reqs :
        /\ req[r].route = "webhook" /\ req[r].response.success
        /\ \E i \in 1..Len(req[r].calls) :
              /\ req[r].calls[i].entity = "Membership" /\ req[r].calls[i].action = "create"
              /\ req[r].calls[i].outcome = "threw"

\* The calls of a request that write the local area back to the contact.
UpdateCalls(q) ==
    {i \in 1..Len(q.calls) : q.calls[i].fn = "updateContactLocalArea"}

\* The transaction supplies, under the custom-field policy, a Local Area value
\* that is not the one the lookup returned for the contact.
SuppliesNewArea(q) ==
    /\ q.data # None
    /\ UsesCustomField(variant, q.data[1])
    /\ Truthy(TransactionLocalArea(q.data[1]))
    /\ StoredLocalArea(q) # TransactionLocalArea(q.data[1])

\* C11 as stated: the update of the contact's stored value is issued after the
\* Contribution.create of the same request, never before it.
C11_UpdateAfterContribution ==
    \A r \in Reqs :
        \A i \in UpdateCalls(req[r]) :
            \E j \in ContributionCalls(req[r]) : j < i

\* C11, amended: when the transaction supplies a value that differs from the
\* stored one, the update carrying that value is issued, and has been answered,
\* before the request's Contribution.create is issued; no update follows it.
C11_UpdateBeforeContribution ==
    \A r \in Reqs :
        LET q == req[r]
        IN  \A j \in ContributionCalls(q) :
               /\ SuppliesNewArea(q)
                     => \E i \in UpdateCalls(q) :
                           /\ i < j /\ q.calls[i].outcome # "pending"
                           /\ q.calls[i].params.custom_820 = TransactionLocalArea(q.data[1])
               /\ \A i \in UpdateCalls(q) : i < j

\* C11's case: Chicago is stored, the transaction says Colorado, and the
\* contribution was created after the update.
C11_Witness ==
    \E r \in Reqs :
        /\ StoredLocalArea(req[r]) = "Chicago" /\ SuppliesNewArea(req[r])
        /\ UpdateCalls(req[r]) # {} /\ ContributionCalls(req[r]) # {}
        /\ Handled(req[r]) /\ req[r].response.success

\* The Membership.create calls of a request, and its Membership.get calls.
MembershipWrites(q) ==
    {i \in 1..Len(q.calls) : q.calls[i].entity = "Membership" /\ q.calls[i].action = "create"}

MembershipReads(q) ==
    {i \in 1..Len(q.calls) : q.calls[i].entity = "Membership" /\ q.calls[i].action = "get"}

\* The contact's latest membership of the type ends after today.
EndsInFuture(q) ==
    q.existingMembership # None /\ Later(q.existingMembership[1].end_date, q.today[1])

\* The day after a date.
NextDay(date) ==
    IF date.d < DaysInMonth(date.y, date.m)
    THEN Date(date.y, date.m, date.d + 1)
    ELSE IF date.m < 12 THEN Date(date.y, date.m + 1, 1) ELSE Date(date.y + 1, 1, 1)

\* C12: when the latest membership of the type is missing or has an end date
\* that is not in the future, the Membership.create carries no id: a fresh
\* record is created, none is written over.
C12_ExpiredCreatesFresh ==
    \A r \in Reqs :
        \A i \in MembershipWrites(req[r]) :
            ~EndsInFuture(req[r]) => req[r].calls[i].params.id = Undefined

\* C13: whatever the existing membership's end date, the renewed window starts
\* on the later of today and the day after that end date, hence strictly after
\* the existing end date.
C13_RenewalNeverOverlaps ==
    \A r \in Reqs :
        \A i \in MembershipWrites(req[r]) :
            LET q == req[r]
                start == q.calls[i].params.start_date
            IN  q.existingMembership # None
                   => LET dayAfter == NextDay(q.existingMembership[1].end_date)
                      IN  /\ start = IF Later(dayAfter, q.today[1]) THEN dayAfter ELSE q.today[1]
                          /\ Later(start, q.existingMembership[1].end_date)

\* The date a duration after start: the same day of the month, months or
\* years later; a day that month does not have counts on into the next.
PlusDuration(start, years, months) == MakeDate(start.y + years, start.m + months, start.d)

\* C14: the written start date is the day after the existing end date when a
\* membership of the type exists and ends in the future, and today otherwise;
\* the written end date is the written start date plus the duration.
C14_WindowFromStart ==
    \A r \in Reqs :
        \A i \in MembershipWrites(req[r]) :
            LET q == req[r]
                written == q.calls[i].params
                plan == MembershipPlan(q.data[1].is_recurring, q.frequency)
            IN  /\ written.start_date = IF EndsInFuture(q)
                                        THEN NextDay(q.existingMembership[1].end_date)
                                        ELSE q.today[1]
                /\ written.end_date = PlusDuration(written.start_date, plan.years, plan.months)

\* C14's case: a monthly plan, a membership ending in sixty days: the window is
\* 15 May to 15 June.
C14_Witness ==
    \E r \in Reqs :
        \E i \in MembershipWrites(req[r]) :
            /\ req[r].today = Some(Date(2025, 3, 15))
            /\ req[r].existingMembership # None
            /\ req[r].existingMembership[1].end_date = Date(2025, 5, 14)
            /\ req[r].frequency = "monthly" /\ req[r].data[1].is_recurring
            /\ req[r].calls[i].params.start_date = Date(2025, 5, 15)
            /\ req[r].calls[i].params.end_date = Date(2025, 6, 15)

\* The type and the duration (years, months) the table gives.
TableEntry(isRecurring, frequency) ==
    CASE ~isRecurring -> <<11, 1, 0>>
      [] isRecurring /\ frequency = "monthly" -> <<10, 0, 1>>
      [] isRecurring /\ frequency \in {"yearly", "annual"} -> <<9, 1, 0>>
      [] isRecurring /\ frequency = "quarterly" -> <<10, 0, 3>>
      [] OTHER -> <<11, 1, 0>>

\* C15: the membership type asked for and written, and the duration of the
\* written window, are those of the table for (is_recurring, frequency).
C15_TypeAndDuration ==
    \A r \in Reqs :
        LET q == req[r]
            entry == TableEntry(q.data[1].is_recurring, q.frequency)
        IN  /\ \A i \in MembershipReads(q) : q.calls[i].params.membership_type_id = entry[1]
            /\ \A i \in MembershipWrites(q) :
                  /\ q.calls[i].params.membership_type_id = entry[1]
                  /\ q.calls[i].params.end_date =
                        PlusDuration(q.calls[i].params.start_date, entry[2], entry[3])

\* C15's case: a quarterly plan is written as type 10 for three months.
C15_Witness ==
    \E r \in Reqs :
        \E i \in MembershipWrites(req[r]) :
            /\ req[r].data[1].is_recurring /\ req[r].frequency = "quarterly"
            /\ req[r].calls[i].params.membership_type_id = 10
            /\ req[r].calls[i].params.start_date = Date(2025, 3, 15)
            /\ req[r].calls[i].params.end_date = Date(2025, 6, 15)

\* The plan lookups of a request.
PlanCalls(q) == {i \in 1..Len(q.calls) : q.calls[i].fn = "getGivebutterPlan"}

\* The frequency the plan lookup of a request returned, if it returned one.
ReturnedFrequency(q) ==
    IF /\ \E i \in PlanCalls(q) : q.calls[i].outcome = "returned"
       /\ q.planDetails # None
    THEN q.planDetails[1].frequency
    ELSE Undefined

\* C20: for a transaction with a plan id, createOrRenewMembership is given the
\* frequency the plan lookup returned; when the lookup failed, returned no
\* frequency or was not made, the frequency is null, a recurring transaction
\* gets type 11 for one year, and the request is answered with success.
C20_FrequencyFromPlan ==
    \A r \in Reqs :
        LET q == req[r]
        IN  /\ MembershipReads(q) # {}
                  => IF Truthy(ReturnedFrequency(q))
                     THEN q.frequency = ReturnedFrequency(q)
                     ELSE /\ q.frequency = Null
                          /\ q.data[1].is_recurring
                                => /\ \A i \in MembershipReads(q) \cup MembershipWrites(q) :
                                         q.calls[i].params.membership_type_id = 11
                                   /\ \A i \in MembershipWrites(q) :
                                         q.calls[i].params.end_date =
                                            PlusDuration(q.calls[i].params.start_date, 1, 0)
            /\ \A i \in PlanCalls(q) :
                  q.calls[i].outcome = "threw"
                     => /\ MembershipReads(q) # {}
                        /\ Handled(q) => (q.response.status = 200 /\ q.response.success)

\* C20's case: the plan lookup of a recurring transaction failed, type 11 was
\* written and the webhook answered with success.
C20_Witness ==
    \E r \in Reqs :
        /\ req[r].data # None /\ req[r].data[1].is_recurring
        /\ \E i \in PlanCalls(req[r]) : req[r].calls[i].outcome = "threw"
        /\ \E i \in MembershipWrites(req[r]) : req[r].calls[i].params.membership_type_id = 11
        /\ Handled(req[r]) /\ req[r].response.success

\* C16: a failure of the Contact update made by updateContactLocalArea is not
\* propagated: the Contribution.create of the request is the next call, and
\* the request is answered with success unless that create fails.
C16_UpdateFailureSwallowed ==
    \A r \in Reqs :
        LET q == req[r]
        IN  \A i \in UpdateCalls(q) :
               q.calls[i].outcome = "threw"
                  => /\ i + 1 \in ContributionCalls(q)
                     /\ Handled(q) => (q.response.success \/ q.calls[i + 1].outcome = "threw")

\* C16's case: the update failed and the webhook was answered 200 with success.
C16_Witness ==
    \E r \in Reqs :
        /\ \E i \in UpdateCalls(req[r]) : req[r].calls[i].outcome = "threw"
        /\ req[r].route = "webhook" /\ Handled(req[r])
        /\ req[r].response.status = 200 /\ req[r].response.success

\* C17: under the custom-field policy a non-empty Local Area value of the
\* transaction decides the category, whatever is stored on the contact; the
\* stored value decides only when the transaction supplies none.
C17_TransactionValueFirst ==
    \A r \in Reqs :
        LET q == req[r]
        IN  \A i \in ContributionCalls(q) :
               UsesCustomField(variant, q.data[1])
                  => q.calls[i].params.financial_type_id =
                        IF Truthy(TransactionLocalArea(q.data[1]))
                        THEN FinancialTypeFor(TransactionLocalArea(q.data[1]))
                        ELSE FinancialTypeFor(StoredLocalArea(q))

\* C17's case: the transaction's value is not in the table while Colorado is
\* stored on the contact: 49 is sent, not 20.
C17_Witness ==
    /\ variant \in StoredAreaVariants
    /\ \E r \in Reqs :
          /\ StoredLocalArea(req[r]) = "Colorado"
          /\ TransactionLocalArea(req[r].data[1]) = "Atlantis"
          /\ req[r].data[1].campaign_id = Num("195519")
          /\ \E i \in ContributionCalls(req[r]) :
                req[r].calls[i].params.financial_type_id = 49

\* C18: every Contribution.create carries a defined contact id and a defined
\* financial_type_id.
C18_ContributionReferencesContact ==
    \A r \in Reqs :
        \A i \in ContributionCalls(req[r]) :
            /\ Truthy(req[r].calls[i].params.contact_id)
            /\ req[r].calls[i].params.financial_type_id \in Nat \ {0}

\* The contacts of the CRM with an email.
ContactsOf(email) == {i \in 1..Len(contacts) : contacts[i].email = email}

\* The requests whose Contact.create for an email the CRM carried out.
CreatedFor(email) ==
    {r \in Reqs : \E i \in ResolverCreates(req[r]) :
                     /\ req[r].calls[i].params.email = email
                     /\ req[r].calls[i].outcome = "returned"}

\* The request's lookup found no contact.
LookupEmpty(q) == q.searchResult # None /\ q.searchResult[1].count = 0

\* C19: nothing keeps two requests for one unknown email apart: a request
\* whose lookup was empty issues its Contact.create whatever the other request
\* has done since, and every create the CRM carries out adds a contact, so the
\* email has as many contacts as creates were carried out for it.
C19_DuplicatesNotPrevented ==
    /\ \A r \in Reqs : LookupEmpty(req[r]) => Cardinality(ResolverCreates(req[r])) = 1
    /\ Cardinality(ContactsOf(EmailA)) = Cardinality(CreatedFor(EmailA))

\* C19's case: both requests saw an empty lookup, both were answered with
\* success, and the email has two contacts.
C19_Witness ==
    /\ \A r \in Reqs : LookupEmpty(req[r]) /\ Handled(req[r]) /\ req[r].response.success
    /\ Cardinality(Reqs) = 2
    /\ Cardinality(ContactsOf(EmailA)) = 2

\* The Contribution.create of the request did not throw: the CRM answered 2xx.
ContributionReturned(q) ==
    \E j \in ContributionCalls(q) : q.calls[j].outcome \in {"returned", "rejected"}

\* C21: in the deployment with memberships, a transaction whose contribution
\* was submitted gets the membership upsert (its plan lookup or Membership.get)
\* exactly when it gets the custom-field category policy, whether campaign_id
\* is the string '195519' or the number 195519.
C21_MembershipIffPolicy ==
    \A r \in Reqs :
        LET q == req[r]
        IN  (variant = "membership" /\ ContributionReturned(q))
               => (UsesCustomField(variant, q.data[1])
                      <=> PlanCalls(q) \cup MembershipReads(q) # {})

\* C22: a POST to /webhook/givebutter is answered with status 200 or 401,
\* whatever its signature header, event and data, and whether or not the
\* secret is configured.
C22_WebhookAnswers200Or401 ==
    \A r \in Reqs :
        (req[r].route = "webhook" /\ Handled(req[r]))
           => req[r].response.status \in {200, 401}

\* C23: a plan lookup or a Membership call is issued only after the request's
\* Contribution.create has returned, and a request whose Contribution.create
\* failed makes none.
C23_MembershipAfterContribution ==
    \A r \in Reqs :
        LET q == req[r]
        IN  /\ \A i \in PlanCalls(q) \cup MembershipReads(q) \cup MembershipWrites(q) :
                  \E j \in ContributionCalls(q) :
                      j < i /\ q.calls[j].outcome \in {"returned", "rejected"}
            /\ Threw(q, {"createContribution"})
                  => PlanCalls(q) \cup MembershipReads(q) \cup MembershipWrites(q) = {}

\* C23's case: a membership was written after the contribution was created,
\* with the contribution's id.
C23_Witness ==
    \E r \in Reqs :
        \E i \in MembershipWrites(req[r]) :
            /\ \E j \in ContributionCalls(req[r]) : j < i /\ req[r].calls[j].outcome = "returned"
            /\ req[r].calls[i].params.contribution_id = "501"
            /\ req[r].calls[i].outcome = "returned"

====
